---- MODULE Spec2Model ----
(***************************************************************************)
(* Model of the alert notifier of twn-cbs-notify (src/index.mjs).          *)
(*                                                                         *)
(* A JavaScript string is a sequence of one-character strings; a few       *)
(* multi-character tokens stand for runs of characters that no operation   *)
(* of the program splits ("earthquakeew", ".json", "alertType_", ...).     *)
(***************************************************************************)
EXTENDS Integers, Sequences, FiniteSets, Bags, TLC

(***************************************************************************)
(* Bounds of the model.                                                    *)
(***************************************************************************)
\* invocations of handler over the whole behaviour
MaxRuns == 2
\* records published to the feeds over the whole behaviour
MaxPublish == 2
\* requests that fail over the whole behaviour
MaxFailures == 1
\* records the documents of the feed server hold when a single run is studied
MaxDocLen == 2
\* processes (warm containers) that serve invocations
MaxProcs == 2

(***************************************************************************)
(* Strings.                                                                *)
(***************************************************************************)
Digits == {"0", "1", "2", "3", "4", "5", "6", "7", "8", "9"}

IsDigit(c) == c \in Digits

\* collation order of the characters release_time strings are made of
CharOrder == <<"-", "0", "1", "2", "3", "4", "5", "6", "7", "8", "9">>

Code(c) == CHOOSE i \in 1..Len(CharOrder) : CharOrder[i] = c

Min(a, b) == IF a < b THEN a ELSE b

\* String.prototype.substr(start, length), start counted from 0
substr(s, start, length) == SubSeq(s, start + 1, Min(start + length, Len(s)))

\* s.replace(/\D/g, '')
replaceNonDigits(s) == SelectSeq(s, IsDigit)

\* a.localeCompare(b): negative, zero or positive
RECURSIVE localeCompare(_, _)
localeCompare(a, b) ==
    IF a = <<>> /\ b = <<>> THEN 0
    ELSE IF a = <<>> THEN -1
    ELSE IF b = <<>> THEN 1
    ELSE IF Head(a) = Head(b) THEN localeCompare(Tail(a), Tail(b))
    ELSE IF Code(Head(a)) < Code(Head(b)) THEN -1
    ELSE 1

\* s contains the sequence w as a substring
Contains(s, w) ==
    \E i \in 1..(Len(s) - Len(w) + 1) : SubSeq(s, i, i + Len(w) - 1) = w

(***************************************************************************)
(* Module constants of src/index.mjs.                                      *)
(***************************************************************************)
TYPE_PREFIX == "alertType_"

\* the threshold of getAlarmPageKey: a shorter page_key is not globally unique
PageKeyLen == 12

\* process.env.SLACK_WEBHOOKS.split(',')
SLACK_WEBHOOKS == <<"hook1", "hook2">>

\* the path every template starts with, up to and including its last "/"
JsonDir == "https://cbs.tw/public/upload/files/json/"

\* the two templates of the module-level array
pullingSourcesTemplate ==
    << <<JsonDir, "{year}", "_", "earthquakeew", ".json">>,
       <<JsonDir, "{year}", "{month}", ".json">> >>

NSources == Len(pullingSourcesTemplate)

(***************************************************************************)
(* Pure functions of src/index.mjs.                                        *)
(***************************************************************************)
getAlarmPageKey(am) ==
    (IF Len(am.page_key) < PageKeyLen
        THEN substr(replaceNonDigits(am.release_time), 2, 4)
        ELSE <<>>) \o am.page_key

\* as isTestMessage, the second alternative of the pattern missing
isTestMessageOneMarker(message) == Contains(message, <<"u6F14", "u7DF4">>)

\* /(U+6F14 U+7DF4|U+6F14 U+7FD2)/ig: the three characters are written
\* "u6F14", "u7DF4" and "u7FD2"
isTestMessage(message) ==
    \/ Contains(message, <<"u6F14", "u7DF4">>)
    \/ Contains(message, <<"u6F14", "u7FD2">>)

\* message.replace(/\/\/gov\.tw\//g, '// gov [.] tw/')
filterMessage(oMessage) ==
    [i \in 1..Len(oMessage) |->
        IF oMessage[i] = "//gov.tw/" THEN "// gov [.] tw/" ELSE oMessage[i]]

formatAlarm(am) ==
    filterMessage(am.CMAMtext) \o <<"\n---\n">> \o <<"https://cbs.tw/">>
        \o getAlarmPageKey(am)

(***************************************************************************)
(* Source resolution: handler, lines 96-118.                               *)
(***************************************************************************)
\* s.replace(token, by): the first occurrence only
replace(s, token, by) ==
    IF \E i \in 1..Len(s) : s[i] = token
        THEN LET i == CHOOSE i \in 1..Len(s) :
                          s[i] = token /\ \A j \in 1..(i - 1) : s[j] # token
             IN  SubSeq(s, 1, i - 1) \o by \o SubSeq(s, i + 1, Len(s))
        ELSE s

\* an element a "/" of a pattern matches at: it ends with a slash
IsSlash(c) == c \in {"/", JsonDir}

\* \w: letters, digits and the underscore
IsWord(c) == IsDigit(c) \/ c \in {"_", "earthquakeew", "xyz"}

AllIn(s, from, to, P(_)) == \A k \in from..to : k \in 1..Len(s) /\ P(s[k])

\* s.match(/\/\d{4}_(\w+)\.json/): the positions <<i, j>> of a match, the
\* group being s[i+6..j]
matchTyped(s) ==
    {<<i, j>> \in (1..Len(s)) \X (1..Len(s)) :
        /\ IsSlash(s[i])
        /\ AllIn(s, i + 1, i + 4, IsDigit)
        /\ i + 5 <= Len(s) /\ s[i + 5] = "_"
        /\ j >= i + 6
        /\ AllIn(s, i + 6, j, IsWord)
        /\ j + 1 <= Len(s) /\ s[j + 1] = ".json"}

\* s.match(/\/\d{6}\.json/)
matchMonth(s) ==
    {i \in 1..Len(s) :
        /\ IsSlash(s[i])
        /\ AllIn(s, i + 1, i + 6, IsDigit)
        /\ i + 7 <= Len(s) /\ s[i + 7] = ".json"}

StringType(v) == [kind |-> "string", value |-> v]
MONTH_REPORT_TYPE == [kind |-> "symbol", value |-> <<"MONTH_REPORT">>]
UndefinedType == [kind |-> "undefined", value |-> <<>>]

\* lines 106-108: one template with the placeholders replaced
resolveSource(s, today) ==
    replace(replace(s, "{year}", substr(today, 0, 4)),
            "{month}", substr(today, 5, 2))

\* lines 110-115: the type of one resolved location
classifySource(s) ==
    IF matchTyped(s) # {}
        THEN LET m == CHOOSE m \in matchTyped(s) :
                          \A n \in matchTyped(s) : m[1] <= n[1]
             IN  StringType(SubSeq(s, m[1] + 6, m[2]))
    ELSE IF matchMonth(s) # {} THEN MONTH_REPORT_TYPE
    ELSE UndefinedType

\* line 118
textTypesOf(sourceType) ==
    {sourceType[i].value : i \in {k \in 1..Len(sourceType) :
                                       sourceType[k].kind = "string"}}

(***************************************************************************)
(* Feed normalisation: the callbacks of axios.get, lines 127-141.          *)
(***************************************************************************)
\* what a settled promise of the array promises holds
ListResult(l) == [kind |-> "list", list |-> l]
NullResult == [kind |-> "null", list |-> <<>>]
UndefinedResult == [kind |-> "undefined", list |-> <<>>]
PendingResult == [kind |-> "pending", list |-> <<>>]

\* x placed in the sorted list l before the first element that does not sort
\* before it
RECURSIVE insertSorted(_, _)
insertSorted(x, l) ==
    IF l = <<>> THEN <<x>>
    ELSE IF localeCompare(Head(l).release_time, x.release_time) < 0
        THEN <<Head(l)>> \o insertSorted(x, Tail(l))
        ELSE <<x>> \o l

\* list.sort((a, b) => a.release_time.localeCompare(b.release_time)): stable
RECURSIVE sortByReleaseTime(_)
sortByReleaseTime(l) ==
    IF l = <<>> THEN <<>>
    ELSE insertSorted(Head(l), sortByReleaseTime(Tail(l)))

\* values.flatMap(Object.values): one level of nesting removed
RECURSIVE flatMapValues(_)
flatMapValues(l) ==
    IF l = <<>> THEN <<>> ELSE Head(l) \o flatMapValues(Tail(l))

\* the value the promise of one source settles to, for a response
\* [status, contentType, success, shape, data]
normalize(type, response) ==
    IF response.status # "ok" THEN UndefinedResult
    ELSE IF response.contentType = "application/json" /\ response.success
        THEN IF type.kind = "string"
                THEN IF response.shape = "alertMessages"
                        THEN ListResult(sortByReleaseTime(response.data))
                        ELSE UndefinedResult
             ELSE IF type = MONTH_REPORT_TYPE
                THEN IF response.shape = "nested"
                        THEN ListResult(sortByReleaseTime(
                                 flatMapValues(flatMapValues(response.data))))
                        ELSE UndefinedResult
             ELSE NullResult
        ELSE NullResult

(***************************************************************************)
(* The dedup pass: handler, lines 146-177.                                 *)
(***************************************************************************)
EmptyMap == [k \in {} |-> k]

\* TYPE_PREFIX + type
tagKey(type) == <<TYPE_PREFIX>> \o type

\* as latestTimeOf, the loaded watermark left unread
latestTimeOfUnread(latestTimeMap, key) == <<>>

\* latestTimeMap[key] || ''
latestTimeOf(latestTimeMap, key) ==
    IF key \in DOMAIN latestTimeMap THEN latestTimeMap[key] ELSE <<>>

\* as isNewAlarm, with <= 0 for < 0
isNewAlarmInclusive(latestTime, r) ==
    localeCompare(latestTime, r.release_time) <= 0 /\ ~isTestMessage(r.CMAMtext)

\* the test of lines 158 and 170
isNewAlarm(latestTime, r) ==
    localeCompare(latestTime, r.release_time) < 0 /\ ~isTestMessage(r.CMAMtext)

\* as includeAlarm, an entry already under the pageKey being kept
includeAlarmKeepFirst(acc, key, r) ==
    [newAlarms |-> acc.newAlarms @@ (getAlarmPageKey(r) :> r),
     tagUpdate |-> (key :> r.release_time) @@ acc.tagUpdate]

\* lines 159-161 and 171-173, on acc = [newAlarms, tagUpdate]
includeAlarm(acc, key, r) ==
    [newAlarms |-> (getAlarmPageKey(r) :> r) @@ acc.newAlarms,
     tagUpdate |-> (key :> r.release_time) @@ acc.tagUpdate]

\* the body of the forEach of lines 157-163
RECURSIVE forEachTyped(_, _, _, _)
forEachTyped(acc, key, latestTime, result) ==
    IF result = <<>> THEN acc
    ELSE forEachTyped(IF isNewAlarm(latestTime, Head(result))
                          THEN includeAlarm(acc, key, Head(result))
                          ELSE acc,
                      key, latestTime, Tail(result))

\* as forEachMonth, without the return of line 166
RECURSIVE forEachMonthAnyType(_, _, _, _)
forEachMonthAnyType(acc, textTypes, latestTimeMap, result) ==
    IF result = <<>> THEN acc
    ELSE LET r == Head(result)
             key == tagKey(r.alertType)
         IN  forEachMonthAnyType(
                 IF isNewAlarm(latestTimeOf(latestTimeMap, key), r)
                     THEN includeAlarm(acc, key, r)
                     ELSE acc,
                 textTypes, latestTimeMap, Tail(result))

\* the body of the forEach of lines 165-175
RECURSIVE forEachMonth(_, _, _, _)
forEachMonth(acc, textTypes, latestTimeMap, result) ==
    IF result = <<>> THEN acc
    ELSE LET r == Head(result)
             key == tagKey(r.alertType)
         IN  forEachMonth(
                 IF /\ r.alertType \in textTypes
                    /\ isNewAlarm(latestTimeOf(latestTimeMap, key), r)
                     THEN includeAlarm(acc, key, r)
                     ELSE acc,
                 textTypes, latestTimeMap, Tail(result))

\* as dedupSource, a source without result ending the pass with nothing, as
\* a raised error would, where line 152 goes on to the next source
dedupSourceOrNothing(acc, type, result, textTypes, latestTimeMap) ==
    IF result.kind # "list"
        THEN [newAlarms |-> EmptyMap, tagUpdate |-> EmptyMap]
    ELSE IF type.kind = "string"
        THEN forEachTyped(acc, tagKey(type.value),
                          latestTimeOf(latestTimeMap, tagKey(type.value)),
                          result.list)
    ELSE IF type = MONTH_REPORT_TYPE
        THEN forEachMonth(acc, textTypes, latestTimeMap, result.list)
    ELSE acc

\* one turn of the loop of lines 149-177
dedupSource(acc, type, result, textTypes, latestTimeMap) ==
    IF result.kind # "list" THEN acc
    ELSE IF type.kind = "string"
        THEN forEachTyped(acc, tagKey(type.value),
                          latestTimeOf(latestTimeMap, tagKey(type.value)),
                          result.list)
    ELSE IF type = MONTH_REPORT_TYPE
        THEN forEachMonth(acc, textTypes, latestTimeMap, result.list)
    ELSE acc

\* as dedupFrom, the sources being gone through from the last to the first
RECURSIVE dedupFromLast(_, _, _, _, _)
dedupFromLast(acc, i, sourceType, results, latestTimeMap) ==
    IF i > Len(sourceType) THEN acc
    ELSE dedupSource(dedupFromLast(acc, i + 1, sourceType, results,
                                   latestTimeMap),
                     sourceType[i], results[i], textTypesOf(sourceType),
                     latestTimeMap)

\* the loop of lines 149-177 from source i on
RECURSIVE dedupFrom(_, _, _, _, _)
dedupFrom(acc, i, sourceType, results, latestTimeMap) ==
    IF i > Len(sourceType) THEN acc
    ELSE dedupFrom(dedupSource(acc, sourceType[i], results[i],
                               textTypesOf(sourceType), latestTimeMap),
                   i + 1, sourceType, results, latestTimeMap)

\* as dedup, the loaded watermarks left out of the pass
dedupIgnoringStore(sourceType, results, latestTimeMap) ==
    dedupFrom([newAlarms |-> EmptyMap, tagUpdate |-> EmptyMap], 1,
              sourceType, results, EmptyMap)

\* lines 146-177: [newAlarms, tagUpdate] of a run
dedup(sourceType, results, latestTimeMap) ==
    dedupFrom([newAlarms |-> EmptyMap, tagUpdate |-> EmptyMap], 1,
              sourceType, results, latestTimeMap)

(***************************************************************************)
(* The environment: the clock and locale of the runtime, the documents the *)
(* feed server holds, the tags of the function (the watermark store).      *)
(***************************************************************************)
Chars(y, m, d) == [year |-> y, month |-> m, day |-> d]

\* the civil dates (Asia/Taipei) an invocation can happen on
Dates == << Chars(<<"2", "0", "2", "4">>, <<"0", "1">>, <<"0", "1">>) >>

\* NOW.toLocaleString('zh-TW', {year: 'numeric', month: '2-digit', day:
\* '2-digit'}): "2024/01/01" where the runtime has the locale data of zh-TW,
\* and the en-US form "01/01/2024" where it falls back to its default locale
toLocaleString(date, icu) ==
    IF icu = "zh-TW"
        THEN date.year \o <<"/">> \o date.month \o <<"/">> \o date.day
        ELSE date.month \o <<"/">> \o date.day \o <<"/">> \o date.year

Locales == {"zh-TW", "en-US"}

\* a date of the month that follows, and the dates the clock goes through
NextMonth == Chars(<<"2", "0", "2", "4">>, <<"0", "2">>, <<"0", "1">>)
Calendar == Dates \o <<NextMonth>>

\* release_time values, in ascending order
T1 == <<"2", "0", "2", "4", "-", "0", "1", "-", "1">>
T2 == <<"2", "0", "2", "4", "-", "0", "1", "-", "2">>

\* page_key values: one shorter than PageKeyLen, and the same bulletin's key
\* as a feed exposes it in full
ShortKey == <<"0", "0", "0", "0", "0", "0", "0", "7">>
FullKey == <<"2", "4", "0", "1">> \o ShortKey
OtherKey == <<"0", "0", "0", "0", "0", "0", "0", "8">>

PlainText == <<"A", "//gov.tw/">>
DrillText == <<"A", "u6F14", "u7FD2">>

Tracked == <<"earthquakeew">>
Untracked == <<"xyz">>

Alarm(t, k, x, a) ==
    [release_time |-> t, page_key |-> k, CMAMtext |-> x, alertType |-> a]

\* the records a document of the feed server can hold
Alarms ==
    {Alarm(T1, ShortKey, PlainText, Tracked),
     Alarm(T2, ShortKey, PlainText, Tracked),
     Alarm(T2, OtherKey, PlainText, Tracked),
     Alarm(T2, FullKey, DrillText, Tracked),
     Alarm(T2, OtherKey, PlainText, Untracked)}

\* the records the feed server publishes while the function runs
Bulletins ==
    {Alarm(T1, ShortKey, PlainText, Tracked),
     Alarm(T2, OtherKey, PlainText, Tracked)}

\* the locations the feed server serves a document at
YearFile(d) == <<JsonDir>> \o d.year \o <<"_", "earthquakeew", ".json">>
MonthFile(d) == <<JsonDir>> \o d.year \o d.month \o <<".json">>
YearFiles == {YearFile(Dates[i]) : i \in 1..Len(Dates)}
MonthFiles == {MonthFile(Dates[i]) : i \in 1..Len(Dates)}
Locations == YearFiles \cup MonthFiles

\* the top-level keys of a monthly report, each holding one sub-group
GroupKeys == <<"A", "B">>

\* what the feed server can answer a GET of location u with
Responses(u, docs) ==
    {[status |-> "error", contentType |-> "", success |-> FALSE,
      shape |-> "", data |-> <<>>],
     [status |-> "ok", contentType |-> "text/html", success |-> FALSE,
      shape |-> "", data |-> <<>>]}
    \cup
    IF u \in DOMAIN docs
        THEN {[status |-> "ok", contentType |-> "application/json",
               success |-> FALSE, shape |-> "", data |-> <<>>],
              [status |-> "ok", contentType |-> "application/json",
               success |-> TRUE, shape |-> "", data |-> <<>>],
              [status |-> "ok", contentType |-> "application/json",
               success |-> TRUE,
               shape |-> IF u \in YearFiles THEN "alertMessages" ELSE "nested",
               data |-> docs[u]]}
        ELSE {}

\* the answer is not the document: the GET failed, or the body is not a
\* usable document; a location the server holds no document at has no
\* other answer
IsFailure(u, docs, response) ==
    /\ u \in DOMAIN docs
    /\ ~(response.status = "ok" /\ response.success /\ response.shape # "")

(***************************************************************************)
(* State.                                                                  *)
(***************************************************************************)
VARIABLES
    icu,             \* the locale toLocaleString formats dates in
    now,             \* the index in Dates of the current date
    feed,            \* location -> the data of the document served there
    published,       \* number of records published so far
    failures,        \* number of requests that failed so far
    Tags,            \* the tags of the function: key -> value
    pullingSources,  \* process -> its module-level array (lines 5-8)
    running,         \* process -> the run it executes, 0 when idle
    nRuns,           \* number of invocations so far
    pc,              \* run -> where handler is
    sourceType,      \* run -> the array of line 104
    results,         \* run -> what each promise of line 120 settled to
    latestTimeMap,   \* run -> the result of fetchAlarmLatestUpdate
    newAlarms,       \* run -> pageKey -> record (line 146)
    tagUpdate,       \* run -> key -> release_time (line 147)
    postPromises     \* run -> the requests of line 179, with their state

vars == <<icu, now, feed, published, failures, Tags, pullingSources, running, nRuns, pc,
          sourceType, results, latestTimeMap, newAlarms, tagUpdate,
          postPromises>>

env == <<icu, now>>

Procs == 1..MaxProcs
Runs == 1..MaxRuns

PendingMap == [kind |-> "pending", map |-> EmptyMap]
LoadedMap(m) == [kind |-> "map", map |-> m]

\* a tag the function carries that is no watermark
OwnerTag == <<"owner">>

\* the state of a document of the feed server before anything is published
EmptyDoc(u) ==
    IF u \in YearFiles THEN <<>> ELSE [g \in 1..Len(GroupKeys) |-> << <<>> >>]

Init ==
    /\ icu \in Locales
    /\ now = 1
    /\ feed = [u \in Locations |-> EmptyDoc(u)]
    /\ published = 0
    /\ failures = 0
    /\ Tags = (OwnerTag :> <<"o", "p", "s">>)
    /\ pullingSources = [p \in Procs |-> pullingSourcesTemplate]
    /\ running = [p \in Procs |-> 0]
    /\ nRuns = 0
    /\ pc = [k \in Runs |-> "idle"]
    /\ sourceType = [k \in Runs |-> <<>>]
    /\ results = [k \in Runs |-> <<>>]
    /\ latestTimeMap = [k \in Runs |-> PendingMap]
    /\ newAlarms = [k \in Runs |-> EmptyMap]
    /\ tagUpdate = [k \in Runs |-> EmptyMap]
    /\ postPromises = [k \in Runs |-> <<>>]

(***************************************************************************)
(* The feed server publishes a record.                                     *)
(***************************************************************************)
PublishYear(u, r) ==
    /\ u \in YearFiles
    /\ published < MaxPublish
    /\ feed' = [feed EXCEPT ![u] = Append(@, r)]
    /\ published' = published + 1
    /\ UNCHANGED <<env, failures, Tags, pullingSources, running, nRuns, pc,
                   sourceType, results, latestTimeMap, newAlarms, tagUpdate,
                   postPromises>>

\* a record goes under the top-level key of its category
groupOf(r) == IF r.alertType = Tracked THEN 1 ELSE 2

PublishMonth(u, r) ==
    /\ u \in MonthFiles
    /\ published < MaxPublish
    /\ feed' = [feed EXCEPT ![u][groupOf(r)][1] = Append(@, r)]
    /\ published' = published + 1
    /\ UNCHANGED <<env, failures, Tags, pullingSources, running, nRuns, pc,
                   sourceType, results, latestTimeMap, newAlarms, tagUpdate,
                   postPromises>>

(***************************************************************************)
(* handler, lines 89-145: resolve the sources, issue the fetches and the   *)
(* read of the watermarks.                                                 *)
(***************************************************************************)
\* the run a process executes has come to an end
Settled(k) == pc[k] \in {"returned", "rejected"}

\* process p has served an invocation
Warm(p) == pullingSources[p] # pullingSourcesTemplate \/ running[p] # 0

\* processes are interchangeable: they are started in the order of Procs
HandlerStart(p) ==
    /\ running[p] = 0
    /\ nRuns < MaxRuns
    /\ \A q \in 1..(p - 1) : Warm(q)
    /\ LET k == nRuns + 1
           today == toLocaleString(Calendar[now], icu)
           sources == [i \in 1..NSources |->
                          resolveSource(pullingSources[p][i], today)]
       IN  /\ pullingSources' = [pullingSources EXCEPT ![p] = sources]
           /\ sourceType' = [sourceType EXCEPT ![k] =
                                [i \in 1..NSources |-> classifySource(sources[i])]]
           /\ results' = [results EXCEPT ![k] =
                             [i \in 1..NSources |-> PendingResult]]
           /\ running' = [running EXCEPT ![p] = k]
           /\ pc' = [pc EXCEPT ![k] = "fetch"]
           /\ nRuns' = k
    /\ UNCHANGED <<env, feed, published, failures, Tags, latestTimeMap,
                   newAlarms, tagUpdate, postPromises>>

\* the GET of source i of the run of process p is answered
FetchSettle(p, i, response) ==
    /\ running[p] # 0
    /\ LET k == running[p]
       IN  /\ pc[k] = "fetch"
           /\ results[k][i].kind = "pending"
           /\ response \in Responses(pullingSources[p][i], feed)
           /\ failures' = failures
                  + (IF IsFailure(pullingSources[p][i], feed, response)
                         THEN 1 ELSE 0)
           /\ failures' <= MaxFailures
           /\ results' = [results EXCEPT ![k][i] =
                             normalize(sourceType[k][i], response)]
    /\ UNCHANGED <<env, feed, published, Tags, pullingSources, running, nRuns,
                   pc, sourceType, latestTimeMap, newAlarms, tagUpdate,
                   postPromises>>

\* fetchAlarmLatestUpdate, lines 17-32, on the tags the store answers with
fetchAlarmLatestUpdate(tags) ==
    [key \in {x \in DOMAIN tags : Head(x) = TYPE_PREFIX} |-> tags[key]]

\* the ListTags command of the run of process p is answered
ListTagsSettle(p) ==
    /\ running[p] # 0
    /\ LET k == running[p]
       IN  /\ pc[k] = "fetch"
           /\ latestTimeMap[k].kind = "pending"
           /\ latestTimeMap' = [latestTimeMap EXCEPT ![k] =
                                   LoadedMap(fetchAlarmLatestUpdate(Tags))]
    /\ UNCHANGED <<env, feed, published, failures, Tags, pullingSources,
                   running, nRuns, pc, sourceType, results, newAlarms,
                   tagUpdate, postPromises>>

\* as ListTagsFail, the run going on with no watermark loaded where the
\* await of line 144 throws
ListTagsFailDefault(p) ==
    /\ running[p] # 0
    /\ failures < MaxFailures
    /\ failures' = failures + 1
    /\ LET k == running[p]
       IN  /\ pc[k] = "fetch"
           /\ latestTimeMap[k].kind = "pending"
           /\ latestTimeMap' = [latestTimeMap EXCEPT ![k] = LoadedMap(EmptyMap)]
    /\ UNCHANGED <<env, feed, published, Tags, pullingSources, running, nRuns,
                   pc, sourceType, results, newAlarms, tagUpdate, postPromises>>

\* the ListTags command fails: the await of line 144 throws
ListTagsFail(p) ==
    /\ running[p] # 0
    /\ failures < MaxFailures
    /\ failures' = failures + 1
    /\ LET k == running[p]
       IN  /\ pc[k] = "fetch"
           /\ latestTimeMap[k].kind = "pending"
           /\ pc' = [pc EXCEPT ![k] = "rejected"]
           /\ running' = [running EXCEPT ![p] = 0]
    /\ UNCHANGED <<env, feed, published, Tags, pullingSources, nRuns,
                   sourceType, results, latestTimeMap, newAlarms, tagUpdate,
                   postPromises>>

(***************************************************************************)
(* handler, lines 146-204: dedup, then issue the commit and the posts.     *)
(***************************************************************************)
\* the least key of a non-empty map
leastKey(m) ==
    CHOOSE k \in DOMAIN m : \A l \in DOMAIN m : localeCompare(k, l) <= 0

\* Object.values(m); requests settle in any order, so the order of the
\* values is immaterial and the keys are taken in ascending order
RECURSIVE objectValues(_)
objectValues(m) ==
    IF DOMAIN m = {} THEN <<>>
    ELSE <<m[leastKey(m)]>>
             \o objectValues([k \in DOMAIN m \ {leastKey(m)} |-> m[k]])

Request(kind, webhook, text) ==
    [kind |-> kind, webhook |-> webhook, text |-> text, state |-> "pending"]

\* as tagRequests, without the test of line 181
tagRequestsAlways(update) == <<Request("tag", "", <<>>)>>

\* lines 181-187: the TagResource command, Tags being the run's tagUpdate
tagRequests(update) ==
    IF DOMAIN update # {} THEN <<Request("tag", "", <<>>)>> ELSE <<>>

\* as postEach, the first webhook alone being posted to
postEachFirst(am, webhooks) ==
    IF webhooks = <<>> THEN <<>>
    ELSE <<Request("post", Head(webhooks), formatAlarm(am))>>

\* lines 194-200: one record posted to every webhook
RECURSIVE postEach(_, _)
postEach(am, webhooks) ==
    IF webhooks = <<>> THEN <<>>
    ELSE <<Request("post", Head(webhooks), formatAlarm(am))>>
             \o postEach(am, Tail(webhooks))

\* lines 190-202
RECURSIVE postRequests(_, _)
postRequests(alarms, webhooks) ==
    IF alarms = <<>> \/ webhooks = <<>> THEN <<>>
    ELSE postEach(Head(alarms), webhooks) \o postRequests(Tail(alarms), webhooks)

\* as Fetched, the await of line 145 left out
FetchedRead(k) == latestTimeMap[k].kind = "map"

\* Promise.all(promises) has resolved and fetchAlarmLatestUpdate returned
Fetched(k) ==
    /\ latestTimeMap[k].kind = "map"
    /\ \A i \in 1..NSources : results[k][i].kind # "pending"

HandlerDispatch(p) ==
    /\ running[p] # 0
    /\ LET k == running[p]
           out == dedup(sourceType[k], results[k], latestTimeMap[k].map)
           requests == tagRequests(out.tagUpdate)
                           \o postRequests(objectValues(out.newAlarms),
                                           SLACK_WEBHOOKS)
       IN  /\ pc[k] = "fetch"
           /\ Fetched(k)
           /\ newAlarms' = [newAlarms EXCEPT ![k] = out.newAlarms]
           /\ tagUpdate' = [tagUpdate EXCEPT ![k] = out.tagUpdate]
           /\ postPromises' = [postPromises EXCEPT ![k] = requests]
           /\ pc' = [pc EXCEPT ![k] =
                        IF requests = <<>> THEN "returned" ELSE "post"]
           /\ running' = [running EXCEPT ![p] =
                             IF requests = <<>> THEN 0 ELSE k]
    /\ UNCHANGED <<env, feed, published, failures, Tags, pullingSources,
                   nRuns, sourceType, results, latestTimeMap>>

\* where handler is once request j of run k has settled: Promise.all rejects
\* with the first rejection and resolves with the last fulfilment
afterSettle(k, j, ok) ==
    IF pc[k] # "post" THEN pc[k]
    ELSE IF ~ok THEN "rejected"
    ELSE IF \A l \in 1..Len(postPromises[k]) :
                l # j => postPromises[k][l].state = "fulfilled"
        THEN "returned"
    ELSE "post"

settle(k, j, ok) ==
    /\ ok \/ failures < MaxFailures
    /\ failures' = failures + (IF ok THEN 0 ELSE 1)
    /\ postPromises' = [postPromises EXCEPT ![k][j].state =
                           IF ok THEN "fulfilled" ELSE "rejected"]
    /\ pc' = [pc EXCEPT ![k] = afterSettle(k, j, ok)]
    /\ running' = [p \in Procs |->
                      IF running[p] = k /\ afterSettle(k, j, ok) # "post"
                          THEN 0 ELSE running[p]]

\* TagResource merges the given tags into the tags of the function
tagResource(tags, update) ==
    [key \in DOMAIN tags \cup DOMAIN update |->
        IF key \in DOMAIN update THEN update[key] ELSE tags[key]]

\* the TagResource command of run k is applied, or fails
TagResourceSettle(k, j, ok) ==
    /\ j \in 1..Len(postPromises[k])
    /\ postPromises[k][j].kind = "tag"
    /\ postPromises[k][j].state = "pending"
    /\ Tags' = IF ok THEN tagResource(Tags, tagUpdate[k]) ELSE Tags
    /\ settle(k, j, ok)
    /\ UNCHANGED <<env, feed, published, pullingSources, nRuns, sourceType,
                   results, latestTimeMap, newAlarms, tagUpdate>>

\* a webhook answers the POST j of run k, or the POST fails
PostSettle(k, j, ok) ==
    /\ j \in 1..Len(postPromises[k])
    /\ postPromises[k][j].kind = "post"
    /\ postPromises[k][j].state = "pending"
    /\ settle(k, j, ok)
    /\ UNCHANGED <<env, feed, published, Tags, pullingSources, nRuns,
                   sourceType, results, latestTimeMap, newAlarms, tagUpdate>>

\* the requests a run can have in flight
MaxRequests == 1 + Cardinality(Alarms) * Len(SLACK_WEBHOOKS)

Next ==
    \/ \E u \in Locations, r \in Bulletins : PublishYear(u, r)
    \/ \E u \in Locations, r \in Bulletins : PublishMonth(u, r)
    \/ \E p \in Procs : HandlerStart(p)
    \/ \E p \in Procs, i \in 1..NSources :
           \E response \in Responses(pullingSources[p][i], feed) :
               FetchSettle(p, i, response)
    \/ \E p \in Procs : ListTagsSettle(p)
    \/ \E p \in Procs : ListTagsFail(p)
    \/ \E p \in Procs : HandlerDispatch(p)
    \/ \E k \in Runs, j \in 1..MaxRequests, ok \in BOOLEAN :
           TagResourceSettle(k, j, ok)
    \/ \E k \in Runs, j \in 1..MaxRequests, ok \in BOOLEAN :
           PostSettle(k, j, ok)

Spec == Init /\ [][Next]_vars

(***************************************************************************)
(* Runs that follow one another in one process, nothing failing.           *)
(***************************************************************************)
IsDocument(response) ==
    response.status = "ok" /\ response.success /\ response.shape # ""

NextSequential ==
    \/ \E u \in Locations, r \in Bulletins : PublishYear(u, r)
    \/ \E u \in Locations, r \in Bulletins : PublishMonth(u, r)
    \/ HandlerStart(1)
    \/ \E i \in 1..NSources :
           \E response \in Responses(pullingSources[1][i], feed) :
               IsDocument(response) /\ FetchSettle(1, i, response)
    \/ ListTagsSettle(1)
    \/ HandlerDispatch(1)
    \/ \E k \in Runs, j \in 1..MaxRequests : TagResourceSettle(k, j, TRUE)
    \/ \E k \in Runs, j \in 1..MaxRequests : PostSettle(k, j, TRUE)

InitSequential == Init /\ icu = "zh-TW"

SpecSequential == InitSequential /\ [][NextSequential]_vars

(***************************************************************************)
(* One run, over every content of the documents and of the store.          *)
(***************************************************************************)
SeqsUpTo(S, n) == UNION {[1..m -> S] : m \in 0..n}

TrackedAlarms == {r \in Alarms : r.alertType = Tracked}

\* the contents of the yearly document and of the two groups of the monthly
\* report
Documents ==
    {d \in [year : SeqsUpTo(Alarms, MaxDocLen),
            tracked : SeqsUpTo(TrackedAlarms, MaxDocLen),
            other : SeqsUpTo(Alarms \ TrackedAlarms, MaxDocLen)] :
        Len(d.year) + Len(d.tracked) + Len(d.other) <= MaxDocLen}

\* the tags earlier runs can have left in the store
StoredTags ==
    {OwnerTag :> <<"o", "p", "s">>}
    \cup {(OwnerTag :> <<"o", "p", "s">>) @@ (tagKey(Tracked) :> t) :
              t \in {T1, T2}}
    \cup {(OwnerTag :> <<"o", "p", "s">>) @@ (tagKey(Tracked) :> T1)
              @@ (tagKey(Untracked) :> T1)}

InitOneRun ==
    /\ icu = "zh-TW"
    /\ now = 1
    /\ \E d \in Documents :
           feed = [u \in Locations |->
                      IF u \in YearFiles THEN d.year
                      ELSE << <<d.tracked>>, <<d.other>> >>]
    /\ published = 0
    /\ failures = 0
    /\ Tags \in StoredTags
    /\ pullingSources = [p \in Procs |-> pullingSourcesTemplate]
    /\ running = [p \in Procs |-> 0]
    /\ nRuns = 0
    /\ pc = [k \in Runs |-> "idle"]
    /\ sourceType = [k \in Runs |-> <<>>]
    /\ results = [k \in Runs |-> <<>>]
    /\ latestTimeMap = [k \in Runs |-> PendingMap]
    /\ newAlarms = [k \in Runs |-> EmptyMap]
    /\ tagUpdate = [k \in Runs |-> EmptyMap]
    /\ postPromises = [k \in Runs |-> <<>>]

NextOneRun ==
    \/ nRuns = 0 /\ HandlerStart(1)
    \/ \E i \in 1..NSources :
           \E response \in Responses(pullingSources[1][i], feed) :
               FetchSettle(1, i, response)
    \/ ListTagsSettle(1)
    \/ HandlerDispatch(1)
    \/ \E k \in Runs, j \in 1..MaxRequests, ok \in BOOLEAN :
           TagResourceSettle(k, j, ok)
    \/ \E k \in Runs, j \in 1..MaxRequests, ok \in BOOLEAN :
           PostSettle(k, j, ok)

SpecOneRun == InitOneRun /\ [][NextOneRun]_vars

(***************************************************************************)
(* Runs that follow one another in one process while the clock advances.   *)
(***************************************************************************)
\* the month changes
Tick ==
    /\ now < Len(Calendar)
    /\ now' = now + 1
    /\ UNCHANGED <<icu, feed, published, failures, Tags, pullingSources,
                   running, nRuns, pc, sourceType, results, latestTimeMap,
                   newAlarms, tagUpdate, postPromises>>

CalendarLocations ==
    {YearFile(Calendar[i]) : i \in 1..Len(Calendar)}
        \cup {MonthFile(Calendar[i]) : i \in 1..Len(Calendar)}

InitCalendar ==
    /\ icu = "zh-TW"
    /\ now = 1
    /\ feed = [u \in CalendarLocations |-> EmptyDoc(u)]
    /\ published = 0
    /\ failures = 0
    /\ Tags = (OwnerTag :> <<"o", "p", "s">>)
    /\ pullingSources = [p \in Procs |-> pullingSourcesTemplate]
    /\ running = [p \in Procs |-> 0]
    /\ nRuns = 0
    /\ pc = [k \in Runs |-> "idle"]
    /\ sourceType = [k \in Runs |-> <<>>]
    /\ results = [k \in Runs |-> <<>>]
    /\ latestTimeMap = [k \in Runs |-> PendingMap]
    /\ newAlarms = [k \in Runs |-> EmptyMap]
    /\ tagUpdate = [k \in Runs |-> EmptyMap]
    /\ postPromises = [k \in Runs |-> <<>>]

NextCalendar ==
    \/ Tick
    \/ \E u \in Locations, r \in Bulletins : PublishYear(u, r)
    \/ \E u \in Locations, r \in Bulletins : PublishMonth(u, r)
    \/ HandlerStart(1)
    \/ \E i \in 1..NSources :
           \E response \in Responses(pullingSources[1][i], feed) :
               IsDocument(response) /\ FetchSettle(1, i, response)
    \/ ListTagsSettle(1)
    \/ HandlerDispatch(1)
    \/ \E k \in Runs, j \in 1..MaxRequests : TagResourceSettle(k, j, TRUE)
    \/ \E k \in Runs, j \in 1..MaxRequests : PostSettle(k, j, TRUE)

SpecCalendar == InitCalendar /\ [][NextCalendar]_vars

(***************************************************************************)
(* What the claims speak of.                                               *)
(***************************************************************************)
\* the pageKey of the bulletin a posted message links to
urlPageKey(text) ==
    LET i == CHOOSE i \in 1..Len(text) : text[i] = "https://cbs.tw/"
    IN  SubSeq(text, i + 1, Len(text))

PageKeys == {getAlarmPageKey(r) : r \in Alarms}

Webhooks == {SLACK_WEBHOOKS[i] : i \in 1..Len(SLACK_WEBHOOKS)}

\* the requests <<run, index>> issued so far
Requests == {<<k, j>> \in Runs \X (1..MaxRequests) : j <= Len(postPromises[k])}

\* the POSTs of bulletin pk to webhook w issued so far, over all runs
PostsOf(w, pk) ==
    {q \in Requests :
        /\ postPromises[q[1]][q[2]].kind = "post"
        /\ postPromises[q[1]][q[2]].webhook = w
        /\ urlPageKey(postPromises[q[1]][q[2]].text) = pk}

\* run k has gone through the dedup pass and issued its requests
Dispatched(k) ==
    \/ pc[k] \in {"post", "returned"}
    \/ pc[k] = "rejected" /\ latestTimeMap[k].kind = "map"

\* the TagResource command of run k has been applied to the store
Committed(k) ==
    \E j \in 1..Len(postPromises[k]) :
        postPromises[k][j].kind = "tag" /\ postPromises[k][j].state = "fulfilled"

(***************************************************************************)
(* C1. Over any sequence of invocations of handler, each bulletin (each    *)
(* computed pageKey) is POSTed at most once to each configured webhook.    *)
(* Stated as it stands; it fails already when the runs follow one another  *)
(* in one process and every request succeeds (SpecSequential).             *)
(***************************************************************************)
C1_PostedAtMostOnce ==
    \A w \in Webhooks, pk \in PageKeys : Cardinality(PostsOf(w, pk)) <= 1

(***************************************************************************)
(* C2. Idempotence: when a run has returned, its commit applied, and a     *)
(* later run fetches the same contents from every source, the later run    *)
(* includes no record and issues no POST and no commit.                    *)
(***************************************************************************)
C2_Idempotent ==
    \A a \in Runs, b \in Runs :
        /\ a < b
        /\ pc[a] = "returned"
        /\ Dispatched(b)
        /\ latestTimeMap[b].map =
               tagResource(latestTimeMap[a].map, tagUpdate[a])
        /\ results[b] = results[a]
        => newAlarms[b] = EmptyMap /\ postPromises[b] = <<>>

(***************************************************************************)
(* C3. For every category the watermark held in the store never decreases, *)
(* over any sequence of runs, runs that overlap in time included.          *)
(*                                                                         *)
(* As amended: each commit writes, for every category it writes, a value   *)
(* greater than or equal to the value the committing run loaded for that   *)
(* category at its start; so the stored watermark does not decrease across *)
(* a commit applied while the store still holds what the run loaded.       *)
(***************************************************************************)
\* the watermark run k loaded under key, '' when the store had none
Loaded(k, key) ==
    IF key \in DOMAIN latestTimeMap[k].map
        THEN latestTimeMap[k].map[key] ELSE <<>>

\* this step applies the TagResource command of run k to the store
CommitStep(k) ==
    \E j \in 1..Len(postPromises[k]) :
        /\ postPromises[k][j].kind = "tag"
        /\ postPromises[k][j].state = "pending"
        /\ postPromises'[k][j].state = "fulfilled"

WatermarkKeys == {key \in DOMAIN Tags : Head(key) = TYPE_PREFIX}

NoWatermarkDecreases ==
    \A key \in WatermarkKeys :
        key \in DOMAIN Tags' /\ localeCompare(Tags[key], Tags'[key]) <= 0

C3_NeverDecreases == [][NoWatermarkDecreases]_vars

CommitAboveLoaded(k) ==
    /\ \A key \in DOMAIN tagUpdate[k] :
           /\ Tags'[key] = tagUpdate[k][key]
           /\ localeCompare(Loaded(k, key), Tags'[key]) <= 0
    /\ (\A key \in WatermarkKeys \cup DOMAIN tagUpdate[k] :
            Loaded(k, key) = (IF key \in DOMAIN Tags THEN Tags[key] ELSE <<>>))
           => NoWatermarkDecreases

C3_CommitAboveLoaded ==
    [][\A k \in Runs : CommitStep(k) => CommitAboveLoaded(k)]_vars

\* a commit has been applied by a run that had loaded a watermark for the
\* category it wrote
C3_Witness ==
    \E k \in Runs :
        /\ Committed(k)
        /\ \E key \in DOMAIN tagUpdate[k] : key \in DOMAIN latestTimeMap[k].map

(***************************************************************************)
(* C8. Every invocation of handler returns the fixed result {statusCode:   *)
(* 204, body: ''} (here: ends "returned"), whatever fails inside the run.  *)
(***************************************************************************)
C8_AlwaysReturns == \A k \in Runs : Settled(k) => pc[k] = "returned"

(***************************************************************************)
(* C9. A run one of whose resolved locations matches neither pattern fails *)
(* with a configuration error: it does not go on to the dedup pass and     *)
(* return as if the source were not there.                                 *)
(***************************************************************************)
Unmatched(k) ==
    \E i \in DOMAIN sourceType[k] : sourceType[k][i] = UndefinedType

C9_FailsFast == \A k \in Runs : Unmatched(k) => ~Dispatched(k)

(***************************************************************************)
(* The dedup pass of a run, as the claims C4-C7 and C10 describe it.       *)
(***************************************************************************)
\* the records source i gave run k
SourceRecords(k, i) ==
    IF i \in DOMAIN results[k] /\ results[k][i].kind = "list"
        THEN {results[k][i].list[n] : n \in 1..Len(results[k][i].list)}
        ELSE {}

IsTyped(k, i) == sourceType[k][i].kind = "string"

\* the category run k files record r of source i under
Category(k, i, r) ==
    IF IsTyped(k, i) THEN sourceType[k][i].value ELSE r.alertType

TrackedTypes(k) ==
    {sourceType[k][i].value : i \in {n \in 1..NSources : IsTyped(k, n)}}

\* the pass looks at record r of source i
Considered(k, i, r) ==
    /\ r \in SourceRecords(k, i)
    /\ sourceType[k][i] # UndefinedType
    /\ Category(k, i, r) \in TrackedTypes(k)

\* release_time sorts strictly after the watermark loaded for the category
AfterWatermark(k, i, r) ==
    localeCompare(Loaded(k, <<TYPE_PREFIX>> \o Category(k, i, r)),
                  r.release_time) < 0

\* the body holds one of the two drill markers
HasDrillMarker(text) ==
    \E n \in 1..(Len(text) - 1) :
        text[n] = "u6F14" /\ text[n + 1] \in {"u7DF4", "u7FD2"}

(***************************************************************************)
(* C4. Every record of the new-alert set has a release_time that sorts     *)
(* strictly after the watermark the run loaded for its category (a record  *)
(* whose release_time equals the watermark is not in the set); and when    *)
(* the category has no stored watermark, the bulletin of every non-drill   *)
(* record of the category is in the set.                                   *)
(***************************************************************************)
C4_StrictlyAfterWatermark ==
    \A k \in Runs :
        /\ \A pk \in DOMAIN newAlarms[k] :
               \E i \in 1..NSources :
                   /\ Considered(k, i, newAlarms[k][pk])
                   /\ AfterWatermark(k, i, newAlarms[k][pk])
        /\ Dispatched(k) =>
               \A i \in 1..NSources : \A r \in SourceRecords(k, i) :
                   /\ Considered(k, i, r)
                   /\ Loaded(k, <<TYPE_PREFIX>> \o Category(k, i, r)) = <<>>
                   /\ ~HasDrillMarker(r.CMAMtext)
                   => getAlarmPageKey(r) \in DOMAIN newAlarms[k]

\* a run that loaded the watermark T1 was given a record released at T1,
\* which it left out, and a record released at T2, which it included
C4_Witness ==
    \E k \in Runs :
        /\ Dispatched(k)
        /\ Loaded(k, tagKey(Tracked)) = T1
        /\ \E i \in 1..NSources : \E r \in SourceRecords(k, i) :
               /\ Considered(k, i, r)
               /\ r.release_time = T1
               /\ ~HasDrillMarker(r.CMAMtext)
               /\ \A pk \in DOMAIN newAlarms[k] : newAlarms[k][pk] # r
        /\ \E pk \in DOMAIN newAlarms[k] : newAlarms[k][pk].release_time = T2

(***************************************************************************)
(* C5. Within one run the new-alert set holds one record per pageKey, so   *)
(* a bulletin several sources report is POSTed once to each webhook; of    *)
(* the included records that share a pageKey the one processed last is     *)
(* kept (sources in configuration order, the records of a source in        *)
(* ascending release_time), not the one with the greatest release_time.    *)
(***************************************************************************)
\* the records run k goes through, in the order it goes through them
RECURSIVE ProcessedFrom(_, _)
ProcessedFrom(k, i) ==
    IF i > Len(results[k]) THEN <<>>
    ELSE [n \in 1..Len(results[k][i].list) |->
             [source |-> i, record |-> results[k][i].list[n]]]
         \o ProcessedFrom(k, i + 1)

Processed(k) == ProcessedFrom(k, 1)

\* entry e of Processed(k) passes the tests of inclusion
Included(k, e) ==
    /\ Considered(k, e.source, e.record)
    /\ AfterWatermark(k, e.source, e.record)
    /\ ~HasDrillMarker(e.record.CMAMtext)

\* the places in Processed(k) of the included records of bulletin pk
IncludedAt(k, pk) ==
    {n \in 1..Len(Processed(k)) :
        /\ Included(k, Processed(k)[n])
        /\ getAlarmPageKey(Processed(k)[n].record) = pk}

\* the POSTs of bulletin pk to webhook w that run k issued
PostsOfRun(k, w, pk) == {q \in PostsOf(w, pk) : q[1] = k}

C5_LastProcessedWins ==
    \A k \in Runs : Dispatched(k) =>
        /\ DOMAIN newAlarms[k] = {pk \in PageKeys : IncludedAt(k, pk) # {}}
        /\ \A pk \in DOMAIN newAlarms[k] :
               /\ \E n \in IncludedAt(k, pk) :
                      /\ \A m \in IncludedAt(k, pk) : m <= n
                      /\ newAlarms[k][pk] = Processed(k)[n].record
               /\ \A w \in Webhooks : Cardinality(PostsOfRun(k, w, pk)) = 1

\* two sources gave a run two included records of one bulletin, and the one
\* kept is not the one released last
C5_Witness ==
    \E k \in Runs : \E pk \in DOMAIN newAlarms[k] :
        /\ Dispatched(k)
        /\ \E n \in IncludedAt(k, pk) :
               /\ Processed(k)[n].source = 1
               /\ localeCompare(newAlarms[k][pk].release_time,
                                 Processed(k)[n].record.release_time) < 0
        /\ \E n \in IncludedAt(k, pk) :
               /\ Processed(k)[n].source = 2
               /\ newAlarms[k][pk] = Processed(k)[n].record

(***************************************************************************)
(* C6. A record whose body holds a drill marker is never in the new-alert  *)
(* set, whatever its release_time, and it neither replaces nor removes an  *)
(* included record without marker that has the same pageKey.               *)
(***************************************************************************)
C6_DrillNeverIncluded ==
    \A k \in Runs :
        /\ \A pk \in DOMAIN newAlarms[k] :
               ~HasDrillMarker(newAlarms[k][pk].CMAMtext)
        /\ Dispatched(k) =>
               \A n \in 1..Len(Processed(k)) :
                   Included(k, Processed(k)[n]) =>
                       LET pk == getAlarmPageKey(Processed(k)[n].record)
                       IN  /\ pk \in DOMAIN newAlarms[k]
                           /\ \E m \in IncludedAt(k, pk) :
                                  newAlarms[k][pk] = Processed(k)[m].record

\* a drill record released after the watermark was processed after an
\* included record of the same bulletin, which the set still holds
C6_Witness ==
    \E k \in Runs : \E n \in 1..Len(Processed(k)) :
        \E m \in 1..Len(Processed(k)) :
            /\ Dispatched(k)
            /\ n < m
            /\ Included(k, Processed(k)[n])
            /\ HasDrillMarker(Processed(k)[m].record.CMAMtext)
            /\ Considered(k, Processed(k)[m].source, Processed(k)[m].record)
            /\ AfterWatermark(k, Processed(k)[m].source, Processed(k)[m].record)
            /\ getAlarmPageKey(Processed(k)[m].record)
                   = getAlarmPageKey(Processed(k)[n].record)
            /\ getAlarmPageKey(Processed(k)[n].record) \in DOMAIN newAlarms[k]
            /\ newAlarms[k][getAlarmPageKey(Processed(k)[n].record)]
                   = Processed(k)[n].record

(***************************************************************************)
(* C7. A record of the monthly report whose alertType is the category of   *)
(* no typed source adds no entry to the new-alert set and none to the      *)
(* watermark update, even when its release_time sorts after every stored   *)
(* watermark.                                                              *)
(***************************************************************************)
\* the results of run k without the records of the monthly report whose
\* alertType is not tracked
WithoutUntracked(k) ==
    [i \in 1..NSources |->
        IF IsTyped(k, i) \/ results[k][i].kind # "list" THEN results[k][i]
        ELSE ListResult(SelectSeq(results[k][i].list,
                                  LAMBDA r : r.alertType \in TrackedTypes(k)))]

C7_UntrackedIgnored ==
    \A k \in Runs : Dispatched(k) =>
        /\ DOMAIN tagUpdate[k]
               \subseteq {<<TYPE_PREFIX>> \o t : t \in TrackedTypes(k)}
        /\ \A pk \in DOMAIN newAlarms[k] :
               \E i \in 1..NSources : Considered(k, i, newAlarms[k][pk])
        /\ LET out == dedup(sourceType[k], WithoutUntracked(k),
                            latestTimeMap[k].map)
           IN  newAlarms[k] = out.newAlarms /\ tagUpdate[k] = out.tagUpdate

\* the monthly report gave a run a record of an untracked category released
\* after every stored watermark, and the run included nothing
C7_Witness ==
    \E k \in Runs : \E i \in 1..NSources : \E r \in SourceRecords(k, i) :
        /\ Dispatched(k)
        /\ sourceType[k][i] = MONTH_REPORT_TYPE
        /\ r.alertType \notin TrackedTypes(k)
        /\ \A key \in WatermarkKeys :
               localeCompare(Tags[key], r.release_time) < 0
        /\ WatermarkKeys # {}
        /\ newAlarms[k] = EmptyMap
        /\ tagUpdate[k] = EmptyMap

(***************************************************************************)
(* C10. A source whose fetch fails, whose response is not application/json *)
(* or not a success, or whose payload cannot be read, gives the run no     *)
(* record and the run goes on: the records of the other sources are        *)
(* included, POSTed and committed as if the source had returned an empty   *)
(* list.                                                                   *)
(***************************************************************************)
\* the results of run k, a source without result counted as an empty list
FailedAsEmpty(k) ==
    [i \in 1..NSources |->
        IF results[k][i].kind = "list" THEN results[k][i] ELSE ListResult(<<>>)]

\* source i of run k ended without result though its location is served
FailedSource(k, i) ==
    /\ sourceType[k][i] # UndefinedType
    /\ results[k][i].kind \in {"null", "undefined"}

\* the requests of run k, as issued
Issued(k) ==
    [j \in 1..Len(postPromises[k]) |->
        [postPromises[k][j] EXCEPT !.state = "pending"]]

C10_FailedSourceIsEmptySource ==
    \A k \in Runs :
        /\ Dispatched(k) =>
               LET out == dedup(sourceType[k], FailedAsEmpty(k),
                                latestTimeMap[k].map)
               IN  /\ newAlarms[k] = out.newAlarms
                   /\ tagUpdate[k] = out.tagUpdate
                   /\ Issued(k) = tagRequests(out.tagUpdate)
                          \o postRequests(objectValues(out.newAlarms),
                                          SLACK_WEBHOOKS)
        /\ pc[k] = "rejected" =>
               \/ latestTimeMap[k].kind = "pending"
               \/ \E j \in 1..Len(postPromises[k]) :
                      postPromises[k][j].state = "rejected"

\* a run one source of which failed has returned, the records of the other
\* source POSTed and its watermark committed
C10_Witness ==
    \E k \in Runs :
        /\ pc[k] = "returned"
        /\ \E i \in 1..NSources : FailedSource(k, i)
        /\ newAlarms[k] # EmptyMap
        /\ Committed(k)
        /\ Tags[tagKey(Tracked)] = tagUpdate[k][tagKey(Tracked)]

(***************************************************************************)
(* The watermark update of a run, as the claims C11 and C12 describe it.   *)
(***************************************************************************)
\* the key run k files entry e of Processed(k) under
EntryKey(k, e) == <<TYPE_PREFIX>> \o Category(k, e.source, e.record)

\* the places in Processed(k) of the included records filed under key
IncludedUnder(k, key) ==
    {n \in 1..Len(Processed(k)) :
        /\ Included(k, Processed(k)[n])
        /\ EntryKey(k, Processed(k)[n]) = key}

\* the keys run k included a record under
IncludedKeys(k) ==
    {EntryKey(k, Processed(k)[n]) :
        n \in {m \in 1..Len(Processed(k)) : Included(k, Processed(k)[m])}}

\* t is the greatest release_time of the set S
IsMaximum(t, S) == t \in S /\ \A u \in S : localeCompare(u, t) <= 0

\* the watermark update of run k once the pass is through the first i sources
UpdateAfter(k, i) ==
    dedup(sourceType[k],
          [n \in 1..NSources |-> IF n <= i THEN results[k][n] ELSE NullResult],
          latestTimeMap[k].map).tagUpdate

(***************************************************************************)
(* C11. During the dedup pass the watermark update of a category never     *)
(* decreases once set (here: from one source of the pass to the next), and *)
(* at the end of the pass it is the greatest release_time among the        *)
(* records of the category the run included, all sources taken together.   *)
(***************************************************************************)
C11_UpdateIsMaximum ==
    \A k \in Runs : Dispatched(k) =>
        /\ \A i \in 1..(NSources - 1) : \A key \in DOMAIN UpdateAfter(k, i) :
               /\ key \in DOMAIN UpdateAfter(k, i + 1)
               /\ localeCompare(UpdateAfter(k, i)[key],
                                UpdateAfter(k, i + 1)[key]) <= 0
        /\ DOMAIN tagUpdate[k] = IncludedKeys(k)
        /\ \A key \in DOMAIN tagUpdate[k] :
               IsMaximum(tagUpdate[k][key],
                         {Processed(k)[n].record.release_time :
                              n \in IncludedUnder(k, key)})

(***************************************************************************)
(* C12. A record is included only if its release_time sorts strictly after *)
(* the running watermark of its category: the value put in the watermark   *)
(* update earlier in the run for the category when there is one, the       *)
(* loaded watermark otherwise.                                             *)
(***************************************************************************)
\* the running watermark when the pass comes to entry n of Processed(k)
RunningWatermark(k, n) ==
    LET key == EntryKey(k, Processed(k)[n])
        before == {m \in IncludedUnder(k, key) : m < n}
    IN  IF before = {} THEN Loaded(k, key)
        ELSE Processed(k)[CHOOSE m \in before : \A l \in before : l <= m]
                 .record.release_time

C12_AfterRunningWatermark ==
    \A k \in Runs : Dispatched(k) =>
        \A pk \in DOMAIN newAlarms[k] : \A n \in IncludedAt(k, pk) :
            localeCompare(RunningWatermark(k, n),
                          Processed(k)[n].record.release_time) < 0

(***************************************************************************)
(* C13. Each invocation resolves the {year} and {month} placeholders of    *)
(* every template from the date of that invocation: the locations a        *)
(* process fetches from when it takes an invocation are the templates      *)
(* resolved for the current date, also when the process served an          *)
(* invocation in an earlier month.                                         *)
(***************************************************************************)
\* the templates resolved for the date of index d of Calendar
ResolvedFor(d) ==
    [i \in 1..NSources |->
        resolveSource(pullingSourcesTemplate[i],
                      toLocaleString(Calendar[d], icu))]

\* this step is process p taking an invocation
InvocationStep(p) == running[p] = 0 /\ running'[p] # 0

C13_ResolvedFromInvocationDate ==
    [][\A p \in Procs :
           InvocationStep(p) => pullingSources'[p] = ResolvedFor(now)]_vars

(***************************************************************************)
(* C14. If reading the watermarks from the store fails, the run aborts:    *)
(* the step of the failure ends the run and leaves the store as it was,    *)
(* and the run issues no watermark commit and no webhook POST, then or     *)
(* later.                                                                  *)
(***************************************************************************)
\* run k ended on the failure of the read of the watermarks
ReadFailed(k) == pc[k] = "rejected" /\ latestTimeMap[k].kind = "pending"

\* this step is a request failing that is neither a GET of a source nor a
\* commit nor a POST: the ListTags command
ReadFailStep ==
    /\ failures' = failures + 1
    /\ results' = results
    /\ postPromises' = postPromises

C14_ReadFailureAborts ==
    [][/\ ReadFailStep =>
              /\ Tags' = Tags
              /\ \E k \in Runs :
                     /\ pc[k] = "fetch"
                     /\ latestTimeMap[k].kind = "pending"
                     /\ pc'[k] = "rejected"
                     /\ latestTimeMap'[k].kind = "pending"
                     /\ postPromises'[k] = <<>>
       /\ \A k \in Runs :
              ReadFailed(k) =>
                  /\ pc'[k] = "rejected"
                  /\ latestTimeMap'[k].kind = "pending"
                  /\ postPromises'[k] = <<>>
                  /\ newAlarms'[k] = EmptyMap
                  /\ tagUpdate'[k] = EmptyMap]_vars

\* the read failed in a run a source had given a record to, the store
\* holding no watermark: the record is neither POSTed nor committed
C14_Witness ==
    \E k \in Runs :
        /\ ReadFailed(k)
        /\ \E i \in 1..NSources : SourceRecords(k, i) # {}
        /\ WatermarkKeys = {}
        /\ postPromises[k] = <<>>

(***************************************************************************)
(* C16. In every run, no watermark commit and no webhook POST is issued    *)
(* before the read of the watermarks has completed and the fetch of every  *)
(* source has either completed or failed.                                  *)
(***************************************************************************)
C16_IssuedAfterFetches ==
    \A k \in Runs :
        postPromises[k] # <<>> \/ tagUpdate[k] # EmptyMap
                               \/ newAlarms[k] # EmptyMap
            => /\ latestTimeMap[k].kind = "map"
               /\ \A i \in 1..NSources :
                      results[k][i].kind \in {"list", "null", "undefined"}

\* a run has issued a commit and POSTs, the fetch of one source having
\* completed and the fetch of the other having failed
C16_Witness ==
    \E k \in Runs :
        /\ \E j \in 1..Len(postPromises[k]) : postPromises[k][j].kind = "tag"
        /\ \E j \in 1..Len(postPromises[k]) : postPromises[k][j].kind = "post"
        /\ \E i \in 1..NSources : results[k][i].kind = "list"
        /\ \E i \in 1..NSources : results[k][i].kind = "undefined"

(***************************************************************************)
(* C15. The commit and the POSTs of a run are not ordered with respect to  *)
(* each other: a state is reachable in which the commit of a run has been  *)
(* applied to the store and a POST of the same run has failed, and from    *)
(* there a later run given the same contents does not POST that bulletin.  *)
(* Stated for the bulletins the commit covers (no included record of the   *)
(* bulletin is released after the watermark committed for its category)    *)
(* and for a later run that loads the store as the commit left it.         *)
(***************************************************************************)
\* a POST of bulletin pk that run k issued has failed
PostFailed(k, pk) ==
    \E j \in 1..Len(postPromises[k]) :
        /\ postPromises[k][j].kind = "post"
        /\ postPromises[k][j].state = "rejected"
        /\ urlPageKey(postPromises[k][j].text) = pk

\* run b loaded the watermarks the commit of run a wrote
LoadedAfterCommit(a, b) ==
    /\ latestTimeMap[b].kind = "map"
    /\ \A key \in DOMAIN tagUpdate[a] : Loaded(b, key) = tagUpdate[a][key]

\* the commit of run a covers bulletin pk
Covered(a, pk) ==
    \A n \in IncludedAt(a, pk) :
        /\ EntryKey(a, Processed(a)[n]) \in DOMAIN tagUpdate[a]
        /\ localeCompare(Processed(a)[n].record.release_time,
                         tagUpdate[a][EntryKey(a, Processed(a)[n])]) <= 0

\* run a committed, a POST of bulletin pk failed, and run b came after with
\* the same contents
LostTo(a, b, pk) ==
    /\ a # b
    /\ Committed(a)
    /\ pk \in DOMAIN newAlarms[a]
    /\ PostFailed(a, pk)
    /\ Covered(a, pk)
    /\ Dispatched(b)
    /\ LoadedAfterCommit(a, b)
    /\ results[b] = results[a]

C15_CommittedThenLost ==
    \A a \in Runs, b \in Runs : \A pk \in PageKeys :
        LostTo(a, b, pk) =>
            /\ pk \notin DOMAIN newAlarms[b]
            /\ \A w \in Webhooks : PostsOfRun(b, w, pk) = {}

\* the commit of a run was applied, one of its POSTs failed, and the next
\* run, given the same contents, has returned without a POST of the bulletin
C15_Witness ==
    \E a \in Runs, b \in Runs : \E pk \in PageKeys :
        /\ LostTo(a, b, pk)
        /\ a < b
        /\ pc[a] = "rejected"
        /\ pc[b] = "returned"
        /\ postPromises[b] = <<>>

(***************************************************************************)
(* C17. A run changes the stored watermark only of the categories it       *)
(* included a record of: the watermark update holds the keys of those      *)
(* categories and no other; a run that includes no record issues no commit *)
(* and no POST; the store changes only when a commit is applied, and a     *)
(* commit writes the keys of the update and leaves every other tag as it   *)
(* was.                                                                    *)
(***************************************************************************)
\* the TagResource commands run k issued
TagRequestsOf(k) ==
    {j \in 1..Len(postPromises[k]) : postPromises[k][j].kind = "tag"}

\* run k, once through the pass, writes for the categories it included
UpdatesIncludedOnly(k) ==
    /\ DOMAIN tagUpdate[k] = IncludedKeys(k)
    /\ newAlarms[k] = EmptyMap <=> IncludedKeys(k) = {}
    /\ IncludedKeys(k) = {} => postPromises[k] = <<>>
    /\ Cardinality(TagRequestsOf(k)) = (IF IncludedKeys(k) = {} THEN 0 ELSE 1)

\* the commit of run k merges its update into the store
MergesUpdate(k) ==
    /\ DOMAIN Tags' = DOMAIN Tags \cup DOMAIN tagUpdate[k]
    /\ \A key \in DOMAIN Tags' :
           Tags'[key] = (IF key \in DOMAIN tagUpdate[k]
                             THEN tagUpdate[k][key] ELSE Tags[key])

C17_WritesIncludedOnly ==
    [][/\ \A k \in Runs : Dispatched(k)' => UpdatesIncludedOnly(k)'
       /\ Tags' # Tags => \E k \in Runs : CommitStep(k)
       /\ \A k \in Runs : CommitStep(k) => MergesUpdate(k)]_vars

\* a commit was applied that wrote the watermark of the tracked category and
\* left the stored watermark of another category, of which the monthly
\* report held a later record, as it was
C17_Witness ==
    \E k \in Runs :
        /\ Committed(k)
        /\ DOMAIN tagUpdate[k] = {tagKey(Tracked)}
        /\ Tags[tagKey(Tracked)] = tagUpdate[k][tagKey(Tracked)]
        /\ tagKey(Untracked) \in DOMAIN Tags
        /\ Tags[tagKey(Untracked)] = T1
        /\ \E i \in 1..NSources : \E r \in SourceRecords(k, i) :
               /\ r.alertType = Untracked
               /\ localeCompare(T1, r.release_time) < 0

(***************************************************************************)
(* C18. In a run with N configured webhooks, each record of the new-alert  *)
(* set is POSTed exactly once to each of the N webhooks (the POSTs issued  *)
(* number the size of the set times N), and nothing but the records of the *)
(* set is POSTed.                                                          *)
(***************************************************************************)
\* the POSTs run k issued
PostRequestsOf(k) ==
    {j \in 1..Len(postPromises[k]) : postPromises[k][j].kind = "post"}

\* the POSTs of run k that carry record am to webhook w
PostsCarrying(k, w, am) ==
    {j \in PostRequestsOf(k) :
        /\ postPromises[k][j].webhook = w
        /\ postPromises[k][j].text = formatAlarm(am)}

C18_PostedOncePerWebhook ==
    \A k \in Runs : Dispatched(k) =>
        /\ Cardinality(PostRequestsOf(k))
               = Cardinality(DOMAIN newAlarms[k]) * Len(SLACK_WEBHOOKS)
        /\ \A pk \in DOMAIN newAlarms[k] : \A w \in Webhooks :
               Cardinality(PostsCarrying(k, w, newAlarms[k][pk])) = 1
        /\ \A j \in PostRequestsOf(k) :
               /\ postPromises[k][j].webhook \in Webhooks
               /\ \E pk \in DOMAIN newAlarms[k] :
                      postPromises[k][j].text = formatAlarm(newAlarms[k][pk])

\* a run whose set holds two records has issued two POSTs to each webhook
C18_Witness ==
    \E k \in Runs :
        /\ Dispatched(k)
        /\ Cardinality(DOMAIN newAlarms[k]) = 2
        /\ \A w \in Webhooks :
               Cardinality({j \in PostRequestsOf(k) :
                                postPromises[k][j].webhook = w}) = 2

(***************************************************************************)
(* C19. The new-alert set and the watermark update of a run depend only on *)
(* the loaded watermarks and on what each source returned: whatever the    *)
(* order in which the fetches and the read complete, the two sets are      *)
(* those of the records gone through in source configuration order (each   *)
(* pageKey holds the included record that comes last in that order, each   *)
(* key of the update the release_time of the included record that comes    *)
(* last in that order).                                                    *)
(***************************************************************************)
\* the last place of a non-empty set of places
LastOf(S) == CHOOSE n \in S : \A m \in S : m <= n

InConfigurationOrder(k) ==
    /\ DOMAIN newAlarms[k] = {pk \in PageKeys : IncludedAt(k, pk) # {}}
    /\ \A pk \in DOMAIN newAlarms[k] :
           newAlarms[k][pk] = Processed(k)[LastOf(IncludedAt(k, pk))].record
    /\ DOMAIN tagUpdate[k] = IncludedKeys(k)
    /\ \A key \in DOMAIN tagUpdate[k] :
           tagUpdate[k][key]
               = Processed(k)[LastOf(IncludedUnder(k, key))].record.release_time

C19_OrderOfCompletionImmaterial ==
    \A k \in Runs : Dispatched(k) => InConfigurationOrder(k)

\* the two sources gave a run included records of one category released at
\* different times, and the update holds the release_time of the record of
\* the source configured last
C19_Witness ==
    \E k \in Runs : \E key \in DOMAIN tagUpdate[k] :
        /\ Dispatched(k)
        /\ \E n \in IncludedUnder(k, key) :
               /\ Processed(k)[n].source = 1
               /\ Processed(k)[n].record.release_time # tagUpdate[k][key]
        /\ \E n \in IncludedUnder(k, key) :
               /\ Processed(k)[n].source = NSources
               /\ Processed(k)[n].record.release_time = tagUpdate[k][key]

====
